---- MODULE Spec2Model ----
(***************************************************************************)
(* Range-based incremental compilation in the driver:                      *)
(* lib/Driver/DriverIncrementalRanges.cpp.                                 *)
(*                                                                         *)
(* Phase 1 (SourceRangeBasedInfo::loadAllInfo) walks the job list and      *)
(* loads one SourceRangeBasedInfo per primary; phase 2                     *)
(* (neededCompileJobsForRangeBasedIncrementalCompilation) decides which    *)
(* compile jobs must run.  The file system is the environment: the files   *)
(* of a primary are revealed when loadInfoForOnePrimary looks at them.     *)
(***************************************************************************)
EXTENDS Integers, Sequences, FiniteSets, TLC

\* ---------------------------------------------------------------- bounds
\* longest job list
MaxJobs == 3
\* number of lines of a source text
NumLines == 1
\* longest list of ranges handed to findAllOutliers on its own
MaxRanges == 2

\* ------------------------------------------------------------- Optional<T>
None == [some |-> FALSE]
Some(x) == [some |-> TRUE, value |-> x]

\* ------------------------------------------------------------------ paths
\* A path is the sequence of its components; the empty StringRef is <<>>.
\* The primaries of one compilation have pairwise distinct file names; one
\* is given by its bare file name, two with a directory.
PathA == <<"a.swift">>
PathB == <<"sub", "b.swift">>
PathC == <<"lib", "c.swift">>
Primaries == {PathA, PathB, PathC}

\* llvm::sys::path::filename: the last component of the path
filename(path) == IF path = <<>> THEN <<>> ELSE <<path[Len(path)]>>

\* Job::getOutput().getAdditionalOutputForType(type) of the job compiling
\* primary: one supplementary file per (type, primary)
getAdditionalOutputForType(primary, type) == <<type, primary>>

\* ----------------------------------------------------------------- ranges
\* SerializableSourceLocation is <<line, column>>
LocLE(a, b) == a[1] < b[1] \/ (a[1] = b[1] /\ a[2] <= b[2])

Range(sl, sc, el, ec) == [start |-> <<sl, sc>>, end |-> <<el, ec>>]

\* SerializableSourceLocation::endOfAnyFile line number
EndOfAnyFile == 2147483647

\* SerializableSourceRange::wholeFile
wholeFile == Range(0, 0, EndOfAnyFile, 0)

\* SerializableSourceRange::RangesForWholeFile()
RangesForWholeFile == <<wholeFile>>

\* variant: the ends of the two ranges are not compared
isImproperSubsetOf_StartOnly(subset, superset) ==
  LocLE(superset.start, subset.start)

\* superset contains subset: subset.start >= superset.start and
\* subset.end <= superset.end
isImproperSubsetOf(subset, superset) ==
  LocLE(superset.start, subset.start) /\ LocLE(subset.end, superset.end)

isImproperSubsetOfAny(subset, supersetRanges) ==
  \E k \in 1..Len(supersetRanges) : isImproperSubsetOf(subset, supersetRanges[k])

\* SerializableSourceRange::findAllOutliers: the candidates, in candidate
\* order, that no reference range contains
RECURSIVE findAllOutliers(_, _)
findAllOutliers(candidates, references) ==
  IF candidates = <<>> THEN <<>>
  ELSE LET rest == findAllOutliers(Tail(candidates), references)
       IN IF isImproperSubsetOfAny(Head(candidates), references)
          THEN rest
          ELSE <<Head(candidates)>> \o rest

\* SerializableSourceRange::findOutlierIfAny: scan the candidates in order,
\* stop at the first one no reference range contains
RECURSIVE findOutlierIfAny(_, _)
findOutlierIfAny(candidates, references) ==
  IF candidates = <<>> THEN None
  ELSE IF ~isImproperSubsetOfAny(Head(candidates), references)
       THEN Some(Head(candidates))
       ELSE findOutlierIfAny(Tail(candidates), references)

\* ------------------------------------------------------------------ texts
\* A text is NumLines lines; a line is one of two contents.
Texts == [1..NumLines -> 0..1]

\* last line of the run of mismatched lines that starts at line k
RunEnd(old, new, k) ==
  CHOOSE e \in k..NumLines :
    /\ \A j \in k..e : old[j] # new[j]
    /\ (e = NumLines \/ old[e + 1] = new[e + 1])

\* SourceComparator(old, new).compare(); convertAllMismatches().lhs():
\* the mismatched regions, in order, in the coordinates of old
RECURSIVE MismatchesFrom(_, _, _)
MismatchesFrom(old, new, k) ==
  IF k > NumLines THEN <<>>
  ELSE IF old[k] = new[k] THEN MismatchesFrom(old, new, k + 1)
  ELSE LET e == RunEnd(old, new, k)
       IN <<Range(k, 0, e + 1, 0)>> \o MismatchesFrom(old, new, e + 1)

compare(old, new) == MismatchesFrom(old, new, 1)

\* ------------------------------------------------- SwiftRangesFileContents
\* the two mappings of a .swiftranges file
Contents(bodies, unparsed) ==
  [noninlinableFunctionBodies |-> bodies,
   unparsedRangesByNonPrimary |-> unparsed]

\* SwiftRangesFileContents(): no function bodies, no unparsed ranges
EmptyContents == Contents(<<>>, <<>>)

\* -------------------------------------------------------------- the files
\* The three files of one primary as loadInfoForOnePrimary finds them:
\*   exists           the primary exists
\*   swiftRanges      the .swiftranges file: "unreadable", "badHeader",
\*                    "badFormat", or "ok" with the contents it decodes to
\*   compiledModTime  status() of the saved copy, None for an error
\*                    (primaryModTime alike)
\*   compiledText     MemoryBuffer::getFile of the saved copy, None for an
\*                    error (primaryText alike)
\*   unremovable      the types of the supplementary files on which
\*                    llvm::sys::fs::remove returns an error
Line1 == Range(1, 0, 2, 0)
PartOfLine1 == Range(1, 0, 1, 1)
WholeText == Range(1, 0, NumLines + 1, 0)
OldText == [k \in 1..NumLines |-> 0]
NewText == [k \in 1..NumLines |-> 1]

\* What the files of a primary are drawn from.  Listing every combination
\* of every file of three primaries is out of reach, so each primary varies
\* what the others hold fixed:
\*   PathA   the unparsed ranges it recorded for the two other primaries
\*   PathB   its function bodies, the unparsed ranges recorded for PathA,
\*           and which lines of its text changed
\*   PathC   modification times, unreadable texts, and a changed text along
\*           with a file that does not load
\* and each of them can be missing, have a .swiftranges file that does not
\* load, and have a changed or unchanged text.
BodyChoices == {<<>>, <<Line1>>, <<PartOfLine1>>}
UnparsedChoices == {<<PartOfLine1>>, <<WholeText>>}

UnparsedKeys(p) ==
  IF p = PathA THEN {PathB, PathC} ELSE IF p = PathB THEN {PathA} ELSE {}

TextChoices(p) == IF p = PathB THEN Texts ELSE {OldText, NewText}

UnparsedMaps(p) ==
  UNION {[keys -> UnparsedChoices] : keys \in SUBSET UnparsedKeys(p)}

ContentsChoices(p) ==
  {Contents(<<>>, u) : u \in UnparsedMaps(p)}
    \cup (IF p = PathB THEN {Contents(b, <<>>) : b \in BodyChoices} ELSE {})

Files(ex, sr, ct, pt, ctext, ptext) ==
  [exists |-> ex, swiftRanges |-> sr, compiledModTime |-> ct,
   primaryModTime |-> pt, compiledText |-> ctext, primaryText |-> ptext,
   unremovable |-> {}]

RangesOk(c) == [kind |-> "ok", contents |-> c]
RangesBad(k) == [kind |-> k]
RangesFailures == {"unreadable", "badHeader", "badFormat"}

\* the primary was removed; nothing else is looked at
MissingFiles ==
  {Files(FALSE, RangesBad("unreadable"), None, None, None, None)}

\* every file readable, saved copy as old as the primary: the diff runs
NormalFiles(p) ==
  {Files(TRUE, RangesOk(c), Some(0), Some(0), Some(OldText), Some(t)) :
     c \in ContentsChoices(p), t \in TextChoices(p)}

\* a .swiftranges file that does not load
BadRangesFiles(p) ==
  {Files(TRUE, RangesBad(k), Some(0), Some(0), Some(OldText), Some(t)) :
     k \in RangesFailures,
     t \in IF p = PathC THEN TextChoices(p) ELSE {OldText}}

\* Modification times and unreadable texts.  Only the order of the two
\* times matters: the earlier one is 0.  After a status that fails no text
\* is read: both are readable then.  After an unreadable saved copy the
\* primary is not read: it is unchanged then.
Times == {0, 1}
OptTimes == {None} \cup {Some(t) : t \in Times}
OptTexts == {None} \cup {Some(t) : t \in TextChoices(PathC)}
TimedFiles ==
  {f \in {Files(TRUE, RangesOk(EmptyContents), ct, pt, ctext, ptext) :
            ct \in OptTimes, pt \in OptTimes,
            ctext \in {None, Some(OldText)}, ptext \in OptTexts} :
     /\ (f.compiledModTime.some /\ f.primaryModTime.some)
          => (f.compiledModTime.value = 0 \/ f.primaryModTime.value = 0)
     /\ (f.compiledModTime.some /\ ~f.primaryModTime.some)
          => f.compiledModTime.value = 0
     /\ (f.primaryModTime.some /\ ~f.compiledModTime.some)
          => f.primaryModTime.value = 0
     /\ (~f.compiledModTime.some \/ ~f.primaryModTime.some)
          => (f.compiledText.some /\ f.primaryText.some)
     /\ ~f.compiledText.some => f.primaryText = Some(OldText)}

\* the primary was removed, its .swiftranges file and its saved copy are
\* still there
MissingFilesWithRecord ==
  {Files(FALSE, RangesOk(Contents(<<Line1>>, <<>>)), Some(0), None,
         Some(OldText), None)}

FileStates(p) ==
  MissingFiles \cup NormalFiles(p) \cup BadRangesFiles(p)
    \cup (IF p = PathC THEN TimedFiles \cup MissingFilesWithRecord ELSE {})

\* Files whose removal fails: a primary that was removed and one whose
\* .swiftranges file is unreadable, where remove returns an error on the
\* saved copy, on the .swiftranges file, or on both.
SupplementaryTypes == {"TY_CompiledSource", "TY_SwiftRanges"}

UnremovableFileStates ==
  {[f EXCEPT !.unremovable = types] :
     f \in MissingFiles
            \cup {Files(TRUE, RangesBad("unreadable"), Some(0), Some(0),
                        Some(OldText), Some(OldText))},
     types \in (SUBSET SupplementaryTypes) \ {{}}}

\* ----------------------------------------------------------------- loading
\* SourceRangeBasedInfo(contents, changedRanges, nonlocalChangedRanges)
SourceRangeBasedInfo(contents, changed, nonlocal) ==
  [swiftRangesFileContents |-> contents,
   changedRanges |-> changed,
   nonlocalChangedRanges |-> nonlocal]

\* variant: the removed primary has no non-local change
wholeFileChanged_NoNonlocal ==
  Some(SourceRangeBasedInfo(EmptyContents, RangesForWholeFile, <<>>))

\* variant: no entry instead of the wholeFileChanged entry
wholeFileChanged_NoEntry == None

\* wholeFileChanged(): an info with no contents whose changed and non-local
\* changed ranges are the whole file
wholeFileChanged ==
  Some(SourceRangeBasedInfo(EmptyContents, RangesForWholeFile,
                            RangesForWholeFile))

\* SwiftRangesFileContents::load on the bytes of the file
loadSwiftRangesFileContents(f) ==
  IF f.swiftRanges.kind = "ok" THEN Some(f.swiftRanges.contents) ELSE None

\* variant: a file as old as the other counts as newer
isFileNewerThan_OrEqual(lhsModTime, rhsModTime) ==
  IF ~lhsModTime.some \/ ~rhsModTime.some
  THEN None
  ELSE Some(lhsModTime.value >= rhsModTime.value)

\* lhs > rhs, None when either status fails
isFileNewerThan(lhsModTime, rhsModTime) ==
  IF ~lhsModTime.some \/ ~rhsModTime.some
  THEN None
  ELSE Some(lhsModTime.value > rhsModTime.value)

\* variant: the two files are handed to isFileNewerThan the other way round
loadChangedRanges_TimesSwapped(f) ==
  LET isPreviouslyCompiledNewer ==
        isFileNewerThan(f.primaryModTime, f.compiledModTime)
  IN IF ~isPreviouslyCompiledNewer.some THEN None
     ELSE IF isPreviouslyCompiledNewer.value THEN Some(<<>>)
     ELSE IF ~f.compiledText.some THEN None
     ELSE IF ~f.primaryText.some THEN None
     ELSE Some(compare(f.compiledText.value, f.primaryText.value))

\* loadChangedRanges: None for a failure, no ranges when the saved copy is
\* newer, else the mismatches of the saved copy against the primary
loadChangedRanges(f) ==
  LET isPreviouslyCompiledNewer ==
        isFileNewerThan(f.compiledModTime, f.primaryModTime)
  IN IF ~isPreviouslyCompiledNewer.some THEN None
     ELSE IF isPreviouslyCompiledNewer.value THEN Some(<<>>)
     ELSE IF ~f.compiledText.some THEN None
     ELSE IF ~f.primaryText.some THEN None
     ELSE Some(compare(f.compiledText.value, f.primaryText.value))

\* variant: the two arguments of findAllOutliers are exchanged
computeNonlocalChangedRanges_ArgumentsSwapped(contents, changedRanges) ==
  findAllOutliers(contents.noninlinableFunctionBodies, changedRanges)

\* variant: every changed range counts as non-local
computeNonlocalChangedRanges_Unfiltered(contents, changedRanges) ==
  changedRanges

\* computeNonlocalChangedRanges: the changed ranges that are outliers of
\* the bodies of the non-inlinable functions
computeNonlocalChangedRanges(contents, changedRanges) ==
  findAllOutliers(changedRanges, contents.noninlinableFunctionBodies)

\* variant: the .swiftranges file is left alone when the saved copy could
\* not be removed
removeSupplementaryPaths_StopAtFirstError(primary, f) ==
  LET compiledSourcePath ==
        getAdditionalOutputForType(primary, "TY_CompiledSource")
      swiftRangesPath == getAdditionalOutputForType(primary, "TY_SwiftRanges")
  IN IF "TY_CompiledSource" \in f.unremovable
     THEN [removed |-> {compiledSourcePath}, warned |-> {compiledSourcePath}]
     ELSE [removed |-> {compiledSourcePath, swiftRangesPath},
           warned |-> IF "TY_SwiftRanges" \in f.unremovable
                      THEN {swiftRangesPath} ELSE {}]

\* the lambda removeSupplementaryPaths: the paths handed to fs::remove, one
\* after the other, and those of them a warning was written for
removeSupplementaryPaths(primary, f) ==
  LET compiledSourcePath ==
        getAdditionalOutputForType(primary, "TY_CompiledSource")
      swiftRangesPath == getAdditionalOutputForType(primary, "TY_SwiftRanges")
  IN [removed |-> {compiledSourcePath, swiftRangesPath},
      warned |-> (IF "TY_CompiledSource" \in f.unremovable
                  THEN {compiledSourcePath} ELSE {})
                   \cup (IF "TY_SwiftRanges" \in f.unremovable
                         THEN {swiftRangesPath} ELSE {})]

\* variant: the files of a removed primary are left in place
loadInfoForOnePrimary_MissingKeepsFiles(primary, f) ==
  IF ~f.exists
  THEN [info |-> wholeFileChanged,
        removed |-> {}, warned |-> {}]
  ELSE LET swiftRangesFileContents == loadSwiftRangesFileContents(f)
           changedRanges == loadChangedRanges(f)
       IN IF ~swiftRangesFileContents.some \/ ~changedRanges.some
          THEN [info |-> None,
                removed |-> removeSupplementaryPaths(primary, f).removed,
                warned |-> removeSupplementaryPaths(primary, f).warned]
          ELSE [info |-> Some(SourceRangeBasedInfo(
                            swiftRangesFileContents.value,
                            changedRanges.value,
                            computeNonlocalChangedRanges(
                              swiftRangesFileContents.value,
                              changedRanges.value))),
                removed |-> {}, warned |-> {}]

\* variant: the files of a primary that does not load are left in place
loadInfoForOnePrimary_FailureKeepsFiles(primary, f) ==
  IF ~f.exists
  THEN [info |-> wholeFileChanged,
        removed |-> removeSupplementaryPaths(primary, f).removed,
        warned |-> removeSupplementaryPaths(primary, f).warned]
  ELSE LET swiftRangesFileContents == loadSwiftRangesFileContents(f)
           changedRanges == loadChangedRanges(f)
       IN IF ~swiftRangesFileContents.some \/ ~changedRanges.some
          THEN [info |-> None,
                removed |-> {}, warned |-> {}]
          ELSE [info |-> Some(SourceRangeBasedInfo(
                            swiftRangesFileContents.value,
                            changedRanges.value,
                            computeNonlocalChangedRanges(
                              swiftRangesFileContents.value,
                              changedRanges.value))),
                removed |-> {}, warned |-> {}]

\* loadInfoForOnePrimary: the info (or None), the paths handed to remove,
\* and the paths a warning was written for
loadInfoForOnePrimary(primary, f) ==
  IF ~f.exists
  THEN [info |-> wholeFileChanged,
        removed |-> removeSupplementaryPaths(primary, f).removed,
        warned |-> removeSupplementaryPaths(primary, f).warned]
  ELSE LET swiftRangesFileContents == loadSwiftRangesFileContents(f)
           changedRanges == loadChangedRanges(f)
       IN IF ~swiftRangesFileContents.some \/ ~changedRanges.some
          THEN [info |-> None,
                removed |-> removeSupplementaryPaths(primary, f).removed,
                warned |-> removeSupplementaryPaths(primary, f).warned]
          ELSE [info |-> Some(SourceRangeBasedInfo(
                            swiftRangesFileContents.value,
                            changedRanges.value,
                            computeNonlocalChangedRanges(
                              swiftRangesFileContents.value,
                              changedRanges.value))),
                removed |-> {}, warned |-> {}]

\* -------------------------------------------------------------- scheduling
\* the reasons handed to noteBuilding
NoRangeInfo == [kind |-> "could not obtain range info from frontend"]
ThisFileChanged == [kind |-> "this file changed"]
NoUnparsedRanges(nonPriFilename) ==
  [kind |-> "changed non-locally but I have no unparsed ranges there",
   file |-> nonPriFilename]
Changed(nonPriFilename, whatChanged) ==
  [kind |-> "changed", file |-> nonPriFilename, range |-> whatChanged]
ToCreateFiles ==
  [kind |-> "to create source-range and compiled-source files for the next time"]

\* wasEveryNonprimaryNonlocalChangeUnparsed of the info myInfo; order is the
\* order in which the loop meets the keys of allInfos.  The result and the
\* notes passed to noteBuilding.
\* variant: an entry without non-local changes is not passed over
checkNonPrimary_EmptyNotSkipped(myInfo, primary, allInfos, nonPri) ==
  LET myUnparsedRangesByNonPri ==
        myInfo.swiftRangesFileContents.unparsedRangesByNonPrimary
      nonPriInfo == allInfos[nonPri]
      nonPriFilename == filename(nonPri)
  IN IF nonPri = primary
     THEN [continue |-> TRUE, notes |-> <<>>]
     ELSE IF nonPri \notin DOMAIN myUnparsedRangesByNonPri
     THEN [continue |-> FALSE,
           notes |-> <<NoUnparsedRanges(nonPriFilename)>>]
     ELSE LET whatChanged ==
                findOutlierIfAny(nonPriInfo.nonlocalChangedRanges,
                                 myUnparsedRangesByNonPri[nonPri])
          IN IF whatChanged.some
             THEN [continue |-> FALSE,
                   notes |-> <<Changed(nonPriFilename, whatChanged.value)>>]
             ELSE [continue |-> TRUE, notes |-> <<>>]

\* variant: the test of the outlier is inverted
checkNonPrimary_OutlierInverted(myInfo, primary, allInfos, nonPri) ==
  LET myUnparsedRangesByNonPri ==
        myInfo.swiftRangesFileContents.unparsedRangesByNonPrimary
      nonPriInfo == allInfos[nonPri]
      nonPriFilename == filename(nonPri)
  IN IF nonPri = primary \/ nonPriInfo.nonlocalChangedRanges = <<>>
     THEN [continue |-> TRUE, notes |-> <<>>]
     ELSE IF nonPri \notin DOMAIN myUnparsedRangesByNonPri
     THEN [continue |-> FALSE,
           notes |-> <<NoUnparsedRanges(nonPriFilename)>>]
     ELSE LET whatChanged ==
                findOutlierIfAny(nonPriInfo.nonlocalChangedRanges,
                                 myUnparsedRangesByNonPri[nonPri])
          IN IF ~whatChanged.some
             THEN [continue |-> FALSE,
                   notes |-> <<Changed(nonPriFilename,
                                       nonPriInfo.nonlocalChangedRanges[1])>>]
             ELSE [continue |-> TRUE, notes |-> <<>>]

\* variant: a non-primary without unparsed ranges is passed over
checkNonPrimary_NoKeyContinues(myInfo, primary, allInfos, nonPri) ==
  LET myUnparsedRangesByNonPri ==
        myInfo.swiftRangesFileContents.unparsedRangesByNonPrimary
      nonPriInfo == allInfos[nonPri]
      nonPriFilename == filename(nonPri)
  IN IF nonPri = primary \/ nonPriInfo.nonlocalChangedRanges = <<>>
     THEN [continue |-> TRUE, notes |-> <<>>]
     ELSE IF nonPri \notin DOMAIN myUnparsedRangesByNonPri
     THEN [continue |-> TRUE, notes |-> <<>>]
     ELSE LET whatChanged ==
                findOutlierIfAny(nonPriInfo.nonlocalChangedRanges,
                                 myUnparsedRangesByNonPri[nonPri])
          IN IF whatChanged.some
             THEN [continue |-> FALSE,
                   notes |-> <<Changed(nonPriFilename, whatChanged.value)>>]
             ELSE [continue |-> TRUE, notes |-> <<>>]

\* variant: the two arguments of findOutlierIfAny are exchanged
checkNonPrimary_ArgumentsSwapped(myInfo, primary, allInfos, nonPri) ==
  LET myUnparsedRangesByNonPri ==
        myInfo.swiftRangesFileContents.unparsedRangesByNonPrimary
      nonPriInfo == allInfos[nonPri]
      nonPriFilename == filename(nonPri)
  IN IF nonPri = primary \/ nonPriInfo.nonlocalChangedRanges = <<>>
     THEN [continue |-> TRUE, notes |-> <<>>]
     ELSE IF nonPri \notin DOMAIN myUnparsedRangesByNonPri
     THEN [continue |-> FALSE,
           notes |-> <<NoUnparsedRanges(nonPriFilename)>>]
     ELSE LET whatChanged ==
                findOutlierIfAny(myUnparsedRangesByNonPri[nonPri],
                                 nonPriInfo.nonlocalChangedRanges)
          IN IF whatChanged.some
             THEN [continue |-> FALSE,
                   notes |-> <<Changed(nonPriFilename, whatChanged.value)>>]
             ELSE [continue |-> TRUE, notes |-> <<>>]

\* One turn of the loop of wasEveryNonprimaryNonlocalChangeUnparsed, on the
\* entry nonPri of allInfos: go on to the next entry, or return false with a
\* note.
checkNonPrimary(myInfo, primary, allInfos, nonPri) ==
  LET myUnparsedRangesByNonPri ==
        myInfo.swiftRangesFileContents.unparsedRangesByNonPrimary
      nonPriInfo == allInfos[nonPri]
      nonPriFilename == filename(nonPri)
  IN IF nonPri = primary \/ nonPriInfo.nonlocalChangedRanges = <<>>
     THEN [continue |-> TRUE, notes |-> <<>>]
     ELSE IF nonPri \notin DOMAIN myUnparsedRangesByNonPri
     THEN [continue |-> FALSE,
           notes |-> <<NoUnparsedRanges(nonPriFilename)>>]
     ELSE LET whatChanged ==
                findOutlierIfAny(nonPriInfo.nonlocalChangedRanges,
                                 myUnparsedRangesByNonPri[nonPri])
          IN IF whatChanged.some
             THEN [continue |-> FALSE,
                   notes |-> <<Changed(nonPriFilename, whatChanged.value)>>]
             ELSE [continue |-> TRUE, notes |-> <<>>]

\* variant: the loop returns after the first entry it meets
wasEveryNonprimaryNonlocalChangeUnparsed_FirstEntryOnly(myInfo, primary, allInfos, order) ==
  IF order = <<>> THEN [result |-> TRUE, notes |-> <<>>]
  ELSE LET turn == checkNonPrimary(myInfo, primary, allInfos, Head(order))
       IN [result |-> turn.continue, notes |-> turn.notes]

\* wasEveryNonprimaryNonlocalChangeUnparsed of the info myInfo; order is the
\* order in which the loop meets the keys of allInfos.  The result and the
\* notes passed to noteBuilding.
RECURSIVE wasEveryNonprimaryNonlocalChangeUnparsed(_, _, _, _)
wasEveryNonprimaryNonlocalChangeUnparsed(myInfo, primary, allInfos, order) ==
  IF order = <<>> THEN [result |-> TRUE, notes |-> <<>>]
  ELSE LET turn == checkNonPrimary(myInfo, primary, allInfos, Head(order))
       IN IF turn.continue
          THEN wasEveryNonprimaryNonlocalChangeUnparsed(
                 myInfo, primary, allInfos, Tail(order))
          ELSE [result |-> FALSE, notes |-> turn.notes]

\* variant: the negation is lost
didPrimaryParseAnyNonlocalNonprimaryChanges_NotNegated(myInfo, primary, allInfos, order) ==
  LET r == wasEveryNonprimaryNonlocalChangeUnparsed(
             myInfo, primary, allInfos, order)
  IN [result |-> r.result, notes |-> r.notes]

didPrimaryParseAnyNonlocalNonprimaryChanges(myInfo, primary, allInfos, order) ==
  LET r == wasEveryNonprimaryNonlocalChangeUnparsed(
             myInfo, primary, allInfos, order)
  IN [result |-> ~r.result, notes |-> r.notes]

\* variant: the primary's own changed ranges are not looked at
shouldScheduleCompileJob_SelfChangeIgnored(allInfos, primary, order) ==
  IF primary = <<>> THEN [result |-> TRUE, notes |-> <<>>]
  ELSE IF primary \notin DOMAIN allInfos
  THEN [result |-> TRUE, notes |-> <<NoRangeInfo>>]
  ELSE didPrimaryParseAnyNonlocalNonprimaryChanges(
         allInfos[primary], filename(primary), allInfos, order)

\* variant: a changed primary is scheduled without a word to noteBuilding
shouldScheduleCompileJob_ChangeNotNoted(allInfos, primary, order) ==
  IF primary = <<>> THEN [result |-> TRUE, notes |-> <<>>]
  ELSE IF primary \notin DOMAIN allInfos
  THEN [result |-> TRUE, notes |-> <<NoRangeInfo>>]
  ELSE IF allInfos[primary].changedRanges # <<>>
  THEN [result |-> TRUE, notes |-> <<>>]
  ELSE didPrimaryParseAnyNonlocalNonprimaryChanges(
         allInfos[primary], filename(primary), allInfos, order)

shouldScheduleCompileJob(allInfos, primary, order) ==
  IF primary = <<>> THEN [result |-> TRUE, notes |-> <<>>]
  ELSE IF primary \notin DOMAIN allInfos
  THEN [result |-> TRUE, notes |-> <<NoRangeInfo>>]
  ELSE IF allInfos[primary].changedRanges # <<>>
  THEN [result |-> TRUE, notes |-> <<ThisFileChanged>>]
  ELSE didPrimaryParseAnyNonlocalNonprimaryChanges(
         allInfos[primary], filename(primary), allInfos, order)

\* nothing needed, nothing lacking, nothing scheduled, nothing noted
NoJobs == [neededJobs |-> {}, jobsLackingSupplementaryOutputs |-> <<>>,
           scheduled |-> <<>>, notes |-> <<>>]

\* variant: a job is recorded as lacking only when it was not needed
neededCompileJobsTurn_LackingIfNotNeeded(allInfos, Cmd, primary, order) ==
  IF primary = <<>>
  THEN [NoJobs EXCEPT !.scheduled = <<Cmd>>]
  ELSE LET should == shouldScheduleCompileJob(allInfos, primary, order)
           lacking == ~should.result /\ primary \notin DOMAIN allInfos
       IN [neededJobs |-> IF should.result THEN {Cmd} ELSE {},
           jobsLackingSupplementaryOutputs |->
             IF lacking THEN <<Cmd>> ELSE <<>>,
           scheduled |-> <<>>,
           notes |->
             [n \in 1..Len(should.notes) |-> <<Cmd, should.notes[n]>>]
               \o (IF lacking THEN <<<<Cmd, ToCreateFiles>>>> ELSE <<>>)]

\* variant: a job without a primary is passed over without schedule(Cmd)
neededCompileJobsTurn_NotScheduled(allInfos, Cmd, primary, order) ==
  IF primary = <<>>
  THEN NoJobs
  ELSE LET should == shouldScheduleCompileJob(allInfos, primary, order)
           lacking == primary \notin DOMAIN allInfos
       IN [neededJobs |-> IF should.result THEN {Cmd} ELSE {},
           jobsLackingSupplementaryOutputs |->
             IF lacking THEN <<Cmd>> ELSE <<>>,
           scheduled |-> <<>>,
           notes |->
             [n \in 1..Len(should.notes) |-> <<Cmd, should.notes[n]>>]
               \o (IF lacking THEN <<<<Cmd, ToCreateFiles>>>> ELSE <<>>)]

\* One turn of the loop of
\* neededCompileJobsForRangeBasedIncrementalCompilation, on the job Cmd with
\* the given primary: what the turn adds to neededJobs and to
\* jobsLackingSupplementaryOutputs, and what it hands to schedule and to
\* noteBuilding.  A job is its index in the job list; a note is
\* <<job, reason>>.
neededCompileJobsTurn(allInfos, Cmd, primary, order) ==
  IF primary = <<>>
  THEN [NoJobs EXCEPT !.scheduled = <<Cmd>>]
  ELSE LET should == shouldScheduleCompileJob(allInfos, primary, order)
           lacking == primary \notin DOMAIN allInfos
       IN [neededJobs |-> IF should.result THEN {Cmd} ELSE {},
           jobsLackingSupplementaryOutputs |->
             IF lacking THEN <<Cmd>> ELSE <<>>,
           scheduled |-> <<>>,
           notes |->
             [n \in 1..Len(should.notes) |-> <<Cmd, should.notes[n]>>]
               \o (IF lacking THEN <<<<Cmd, ToCreateFiles>>>> ELSE <<>>)]

\* the loop of neededCompileJobsForRangeBasedIncrementalCompilation from job
\* k on
RECURSIVE neededCompileJobsFrom(_, _, _, _)
neededCompileJobsFrom(allInfos, jobList, order, k) ==
  IF k > Len(jobList) THEN NoJobs
  ELSE
    LET turn == neededCompileJobsTurn(allInfos, k, jobList[k].primary, order)
        rest == neededCompileJobsFrom(allInfos, jobList, order, k + 1)
    IN [neededJobs |-> turn.neededJobs \cup rest.neededJobs,
        jobsLackingSupplementaryOutputs |->
          turn.jobsLackingSupplementaryOutputs
            \o rest.jobsLackingSupplementaryOutputs,
        scheduled |-> turn.scheduled \o rest.scheduled,
        notes |-> turn.notes \o rest.notes]

\* ------------------------------------------------------------------ state
VARIABLES
  jobs,       \* the job list; a job is [primary |-> path], <<>> for none
  files,      \* per primary: the files loadInfoForOnePrimary found, or None
  allInfos,   \* the StringMap built by loadAllInfo
  removed,    \* the paths handed to llvm::sys::fs::remove
  warnings,   \* the paths of the "WARNING could not remove" lines
  pc,         \* "load", "done" after the decision, "again" after a second
  idx,        \* position of the loop of loadAllInfo in the job list
  neededJobs, \* first element of the decision's result
  jobsLackingSupplementaryOutputs, \* second element of the result
  scheduled,  \* the jobs handed to the schedule callback, in order
  notes,      \* the <<job, reason>> pairs handed to noteBuilding, in order
  candidates, \* a list of ranges to find the outliers of
  references, \* the list of ranges that may contain them
  outliers,   \* what findAllOutliers returned for them, None before
  firstOutlier \* what findOutlierIfAny returned for them, None before

\* the part of the state that the load phase and the decision work on
driverVars == <<jobs, files, allInfos, removed, warnings, pc, idx,
                neededJobs, jobsLackingSupplementaryOutputs, scheduled,
                notes>>

\* the part of the state of the functions on lists of ranges taken alone
rangeVars == <<candidates, references, outliers, firstOutlier>>

vars == <<driverVars, rangeVars>>

\* variant: the two containers of the result are not local to the call;
\* they keep what an earlier call put into them
neededCompileJobsForRangeBasedIncrementalCompilation_KeptResults(infos, jobList, keyOrder) ==
  LET r == neededCompileJobsFrom(infos, jobList, keyOrder, 1)
  IN [r EXCEPT
        !.neededJobs = neededJobs \cup @,
        !.jobsLackingSupplementaryOutputs =
           jobsLackingSupplementaryOutputs \o @]

\* the decision on the map infos, whose loop over the map meets the keys in
\* keyOrder; neededJobs and jobsLackingSupplementaryOutputs start empty
neededCompileJobsForRangeBasedIncrementalCompilation(infos, jobList, keyOrder) ==
  neededCompileJobsFrom(infos, jobList, keyOrder, 1)

\* ------------------------------------------------------------ the program
Job(primary) == [primary |-> primary]

\* job lists whose compile jobs have pairwise distinct primaries
JobLists ==
  {js \in UNION {[1..n -> {Job(p) : p \in Primaries \cup {<<>>}}] :
                   n \in 0..MaxJobs} :
     \A m, n \in 1..Len(js) :
       (m # n /\ js[m].primary # <<>>) => js[m].primary # js[n].primary}

\* the orders in which a loop over a StringMap can meet the keys
Orders(keys) ==
  {o \in [1..Cardinality(keys) -> keys] :
     \A m, n \in 1..Cardinality(keys) : m # n => o[m] # o[n]}

\* allInfos.insert({primaryPath, info}): an existing key keeps its value
Insert(map, key, value) ==
  IF key \in DOMAIN map THEN map
  ELSE [k \in DOMAIN map \cup {key} |-> IF k = key THEN value ELSE map[k]]

\* variant: the loop is left at the first primary that does not load
loadAllInfoTurn_StopOnFailure(infos, primaryPath, info) ==
  IF ~info.some
  THEN [allInfos |-> infos, continue |-> FALSE, inserted |-> TRUE]
  ELSE [allInfos |-> Insert(infos, primaryPath, info.value),
        continue |-> TRUE, inserted |-> primaryPath \notin DOMAIN infos]

\* variant: a primary that does not load empties the map
loadAllInfoTurn_FailureClearsMap(infos, primaryPath, info) ==
  IF ~info.some
  THEN [allInfos |-> <<>>, continue |-> TRUE, inserted |-> TRUE]
  ELSE [allInfos |-> Insert(infos, primaryPath, info.value),
        continue |-> TRUE, inserted |-> primaryPath \notin DOMAIN infos]

\* variant: the info is kept under the file name of the primary
loadAllInfoTurn_KeyIsFilename(infos, primaryPath, info) ==
  IF ~info.some
  THEN [allInfos |-> infos, continue |-> TRUE, inserted |-> TRUE]
  ELSE [allInfos |-> Insert(infos, filename(primaryPath), info.value),
        continue |-> TRUE,
        inserted |-> filename(primaryPath) \notin DOMAIN infos]

\* One turn of the loop of loadAllInfo once loadInfoForOnePrimary returned
\* info: the map after the turn; the loop goes on either way.  inserted is
\* iter.second, which line 90 asserts: TRUE when nothing is inserted.
loadAllInfoTurn(infos, primaryPath, info) ==
  IF ~info.some
  THEN [allInfos |-> infos, continue |-> TRUE, inserted |-> TRUE]
  ELSE [allInfos |-> Insert(infos, primaryPath, info.value),
        continue |-> TRUE, inserted |-> primaryPath \notin DOMAIN infos]

Init ==
  /\ jobs \in JobLists
  /\ files = [p \in Primaries |-> None]
  /\ allInfos = <<>>
  /\ removed = {}
  /\ warnings = {}
  /\ pc = "load"
  /\ idx = 1
  /\ neededJobs = {}
  /\ jobsLackingSupplementaryOutputs = <<>>
  /\ scheduled = <<>>
  /\ notes = <<>>
  /\ candidates = <<>>
  /\ references = <<>>
  /\ outliers = None
  /\ firstOutlier = None

\* loadAllInfo, one turn of the loop: a job without a primary is passed over
LoadAllInfoNoPrimary ==
  /\ pc = "load"
  /\ idx <= Len(jobs)
  /\ jobs[idx].primary = <<>>
  /\ idx' = idx + 1
  /\ UNCHANGED <<jobs, files, allInfos, removed, warnings, pc, neededJobs,
                 jobsLackingSupplementaryOutputs, scheduled, notes>>
  /\ UNCHANGED rangeVars

\* loadAllInfo, one turn of the loop, on a primary whose files are f
LoadOnePrimary(f) ==
  \E loaded \in {loadInfoForOnePrimary(jobs[idx].primary, f)} :
  \E turn \in {loadAllInfoTurn(allInfos, jobs[idx].primary, loaded.info)} :
     /\ files' = [files EXCEPT ![jobs[idx].primary] = Some(f)]
     /\ removed' = removed \cup loaded.removed
     /\ warnings' = warnings \cup loaded.warned
     /\ allInfos' = turn.allInfos
     /\ idx' = IF turn.continue THEN idx + 1 ELSE Len(jobs) + 1

\* loadAllInfo, one turn of the loop: load the info of the job's primary
LoadAllInfoOnePrimary ==
  /\ pc = "load"
  /\ idx <= Len(jobs)
  /\ jobs[idx].primary # <<>>
  /\ \E f \in FileStates(jobs[idx].primary) : LoadOnePrimary(f)
  /\ UNCHANGED <<jobs, pc, neededJobs, jobsLackingSupplementaryOutputs,
                 scheduled, notes>>
  /\ UNCHANGED rangeVars

\* the same turn, on a primary whose supplementary files cannot be removed
LoadAllInfoOnePrimaryUnremovable ==
  /\ pc = "load"
  /\ idx <= Len(jobs)
  /\ jobs[idx].primary # <<>>
  /\ \E f \in UnremovableFileStates : LoadOnePrimary(f)
  /\ UNCHANGED <<jobs, pc, neededJobs, jobsLackingSupplementaryOutputs,
                 scheduled, notes>>
  /\ UNCHANGED rangeVars

\* loadAllInfo has returned the map:
\* neededCompileJobsForRangeBasedIncrementalCompilation on it
Decide ==
  /\ pc = "load"
  /\ idx > Len(jobs)
  /\ \E order \in Orders(DOMAIN allInfos) :
       \E r \in {neededCompileJobsForRangeBasedIncrementalCompilation(
                  allInfos, jobs, order)} :
          /\ neededJobs' = r.neededJobs
          /\ jobsLackingSupplementaryOutputs' =
               r.jobsLackingSupplementaryOutputs
          /\ scheduled' = r.scheduled
          /\ notes' = r.notes
  /\ pc' = "done"
  /\ UNCHANGED <<jobs, files, allInfos, removed, warnings, idx>>
  /\ UNCHANGED rangeVars

Next ==
  \/ LoadAllInfoNoPrimary
  \/ LoadAllInfoOnePrimary
  \/ Decide

Spec == Init /\ [][Next]_vars

\* loadAllInfo alone: the loop over the job list, up to its return
NextLoad ==
  \/ LoadAllInfoNoPrimary
  \/ LoadAllInfoOnePrimary

SpecLoad == Init /\ [][NextLoad]_vars

\* loadAllInfo alone, over files some of which cannot be removed
NextUnremovable ==
  \/ LoadAllInfoNoPrimary
  \/ LoadAllInfoOnePrimary
  \/ LoadAllInfoOnePrimaryUnremovable

SpecUnremovable == Init /\ [][NextUnremovable]_vars

\* neededCompileJobsForRangeBasedIncrementalCompilation once more, on the
\* same map and the same job list.  The map is the same object, so the loop
\* meets its keys in the order of the first call: an order under which the
\* first call handed out the notes it did.  The callbacks are called once
\* more.
DecideAgain ==
  /\ pc = "done"
  /\ \E o \in Orders(DOMAIN allInfos) :
       \E r \in {neededCompileJobsForRangeBasedIncrementalCompilation(
                  allInfos, jobs, o)} :
          /\ r.notes = notes
          /\ neededJobs' = r.neededJobs
          /\ jobsLackingSupplementaryOutputs' =
               r.jobsLackingSupplementaryOutputs
          /\ scheduled' = scheduled \o r.scheduled
          /\ notes' = notes \o r.notes
  /\ pc' = "again"
  /\ UNCHANGED <<jobs, files, allInfos, removed, warnings, idx>>
  /\ UNCHANGED rangeVars

NextAgain ==
  \/ LoadAllInfoNoPrimary
  \/ LoadAllInfoOnePrimary
  \/ Decide
  \/ DecideAgain

\* the load phase, the decision, and the decision a second time
SpecAgain == Init /\ [][NextAgain]_vars

\* ------------------------------------------- the decision on a given map
\* neededCompileJobsForRangeBasedIncrementalCompilation takes the map as an
\* argument.  The infos of a map are built as the code builds them
\* (wholeFileChanged, or a record, its changed ranges and the non-local ones
\* computed from the two); which records and changes a unit has is drawn as
\* for the files.
ChangeChoices(p) ==
  IF p = PathA THEN {<<>>, <<Line1>>} ELSE {<<>>, <<PartOfLine1>>, <<Line1>>}

InfoChoices(p) ==
  {SourceRangeBasedInfo(c, ch, computeNonlocalChangedRanges(c, ch)) :
     c \in ContentsChoices(p), ch \in ChangeChoices(p)}
    \cup {wholeFileChanged.value}

\* a unit has one of its infos, or no entry
EntryChoices(p) == {None} \cup {Some(info) : info \in InfoChoices(p)}

StateMaps ==
  {[p \in {q \in Primaries : entries[q].some} |-> entries[p].value] :
     entries \in {[q \in Primaries |->
                     IF q = PathA THEN a ELSE IF q = PathB THEN b ELSE c] :
                   a \in EntryChoices(PathA), b \in EntryChoices(PathB),
                   c \in EntryChoices(PathC)}}

\* the job lists of full length
FullJobLists == {js \in JobLists : Len(js) = MaxJobs}

\* the job lists of one job
OneJobLists == {js \in JobLists : Len(js) = 1}

\* loadAllInfo is not called: the caller hands over the map and one of the
\* job lists
InitGiven(jobLists) ==
  /\ jobs \in jobLists
  /\ files = [p \in Primaries |-> None]
  /\ allInfos \in StateMaps
  /\ removed = {}
  /\ warnings = {}
  /\ pc = "load"
  /\ idx = Len(jobs) + 1
  /\ neededJobs = {}
  /\ jobsLackingSupplementaryOutputs = <<>>
  /\ scheduled = <<>>
  /\ notes = <<>>
  /\ candidates = <<>>
  /\ references = <<>>
  /\ outliers = None
  /\ firstOutlier = None

InitMaps == InitGiven(FullJobLists)

NextMaps == Decide

SpecMaps == InitMaps /\ [][NextMaps]_vars

\* the decision on a given map for a list of one job
InitOneJob == InitGiven(OneJobLists)

NextOneJob == Decide

SpecOneJob == InitOneJob /\ [][NextOneJob]_vars

\* ---------------------------------------- the functions on lists of ranges
\* The locations and the ranges that the lists are made of.  <<1, 1>> comes
\* before <<2, 0>> although its column is the greater one.
Locations == {<<1, 0>>, <<1, 1>>, <<2, 0>>}

TextRanges ==
  {Range(se[1][1], se[1][2], se[2][1], se[2][2]) :
     se \in {x \in Locations \X Locations : LocLE(x[1], x[2])}}
    \cup {wholeFile}

RangeLists == UNION {[1..n -> TextRanges] : n \in 0..MaxRanges}

\* candidates are changed ranges: they come in the order of the text
CandidateLists ==
  {l \in RangeLists :
     \A m, n \in 1..Len(l) :
       m < n => (LocLE(l[m].start, l[n].start) /\ l[m].start # l[n].start)}

InitRanges ==
  /\ jobs = <<>>
  /\ files = [p \in Primaries |-> None]
  /\ allInfos = <<>>
  /\ removed = {}
  /\ warnings = {}
  /\ pc = "load"
  /\ idx = 1
  /\ neededJobs = {}
  /\ jobsLackingSupplementaryOutputs = <<>>
  /\ scheduled = <<>>
  /\ notes = <<>>
  /\ candidates \in CandidateLists
  /\ references \in RangeLists
  /\ outliers = None
  /\ firstOutlier = None

\* SerializableSourceRange::findAllOutliers(candidates, references), as
\* computeNonlocalChangedRanges calls it
FindAllOutliers ==
  /\ outliers = None
  /\ outliers' = Some(findAllOutliers(candidates, references))
  /\ UNCHANGED <<driverVars, candidates, references, firstOutlier>>

\* SerializableSourceRange::findOutlierIfAny(candidates, references), as
\* wasEveryNonprimaryNonlocalChangeUnparsed calls it
FindOutlierIfAny ==
  /\ firstOutlier = None
  /\ firstOutlier' = Some(findOutlierIfAny(candidates, references))
  /\ UNCHANGED <<driverVars, candidates, references, outliers>>

NextRanges ==
  \/ FindAllOutliers
  \/ FindOutlierIfAny

SpecRanges == InitRanges /\ [][NextRanges]_vars

\* ------------------------------------------------------------- properties
Elems(seq) == {seq[n] : n \in 1..Len(seq)}

\* the decision has returned
Done == pc = "done"
\* loadAllInfo has returned
Loaded == idx > Len(jobs)

CompileJobs == {k \in 1..Len(jobs) : jobs[k].primary # <<>>}
NonCompileJobs == {k \in 1..Len(jobs) : jobs[k].primary = <<>>}
HasInfo(k) == jobs[k].primary \in DOMAIN allInfos
InfoOf(k) == allInfos[jobs[k].primary]
Unchanged(k) == HasInfo(k) /\ InfoOf(k).changedRanges = <<>>
UnreadOf(k) == InfoOf(k).swiftRangesFileContents.unparsedRangesByNonPrimary
Lacking == Elems(jobsLackingSupplementaryOutputs)
ReasonsFor(k) == {n[2] : n \in {m \in Elems(notes) : m[1] = k}}
NumberOfNotesFor(k) == Cardinality({n \in 1..Len(notes) : notes[n][1] = k})

\* the units of the state map, other than the primary of job k, that have
\* non-local changes
ChangedOthers(k) ==
  {D \in DOMAIN allInfos \ {jobs[k].primary} :
     allInfos[D].nonlocalChangedRanges # <<>>}

\* the non-local changed ranges of D that no range of the unread entry of
\* job k for D contains
Uncovered(k, D) ==
  {r \in Elems(allInfos[D].nonlocalChangedRanges) :
     ~\E u \in Elems(UnreadOf(k)[D]) : isImproperSubsetOf(r, u)}

\* C1: a compile job whose primary has an entry with nonempty changedRanges
\* is in the must-run set, whatever the other units of the map hold.
C1_SelfChangeMustRun ==
  Done => \A k \in CompileJobs :
            (HasInfo(k) /\ InfoOf(k).changedRanges # <<>>) => k \in neededJobs

\* a changed job was needed although no other unit of the map changed
\* non-locally, and another one although some other unit did
C1_Witness ==
  /\ Done
  /\ \E k \in CompileJobs :
       /\ HasInfo(k) /\ InfoOf(k).changedRanges # <<>>
       /\ k \in neededJobs
       /\ DOMAIN allInfos # {jobs[k].primary}
       /\ ChangedOthers(k) = {}
  /\ \E k \in CompileJobs :
       /\ HasInfo(k) /\ InfoOf(k).changedRanges # <<>>
       /\ k \in neededJobs
       /\ ChangedOthers(k) # {}

\* C2: a compile job whose primary has no entry in the state map is in the
\* must-run set and in the lacking-information list.
C2_NoInfoMustRunAndLacking ==
  Done => \A k \in CompileJobs :
            ~HasInfo(k) => (k \in neededJobs /\ k \in Lacking)

C2_Witness ==
  /\ Done
  /\ \E k \in CompileJobs : ~HasInfo(k) /\ k \in neededJobs /\ k \in Lacking
  /\ \E k \in CompileJobs : HasInfo(k)

\* C3 as stated: every job without a primary is a member of the returned
\* must-run set.
C3_NonCompileInNeededJobs ==
  Done => \A k \in NonCompileJobs : k \in neededJobs

\* C3 amended: every job without a primary is handed to the schedule
\* callback, once, and is not a member of the returned must-run set; the
\* callback gets no other job.
C3_NonCompileScheduled ==
  Done => /\ \A k \in NonCompileJobs :
               /\ Cardinality({n \in 1..Len(scheduled) : scheduled[n] = k}) = 1
               /\ k \notin neededJobs
          /\ Elems(scheduled) \subseteq NonCompileJobs

C3_Witness ==
  /\ Done
  /\ \E k \in NonCompileJobs : k \in Elems(scheduled) /\ k \notin neededJobs
  /\ neededJobs # {}

\* C4 as stated: when B has no usable state, every other compile job A whose
\* record holds no unread coverage for B is in the must-run set.
C4_DependentsOfUnloadedMustRun ==
  Done => \A a, b \in CompileJobs :
            (/\ a # b
             /\ ~HasInfo(b)
             /\ HasInfo(a)
             /\ jobs[b].primary \notin DOMAIN UnreadOf(a)) => a \in neededJobs

\* C4 amended: a unit B with no usable state is in the must-run set and in
\* the lacking-information list, but, absent from the state map, it obliges
\* no other job: a compile job A with empty changedRanges is not in the
\* must-run set when every unit of the state map has empty
\* nonlocalChangedRanges.
C4_UnloadedObligesNobody ==
  Done => \A a, b \in CompileJobs :
            (/\ a # b
             /\ ~HasInfo(b)
             /\ Unchanged(a)
             /\ ChangedOthers(a) = {})
              => (a \notin neededJobs /\ b \in neededJobs /\ b \in Lacking)

\* B did not load, A holds no unparsed ranges for B, and A is left out
C4_Witness ==
  /\ Done
  /\ \E a, b \in CompileJobs :
       /\ a # b
       /\ ~HasInfo(b)
       /\ Unchanged(a)
       /\ ChangedOthers(a) = {}
       /\ jobs[b].primary \notin DOMAIN UnreadOf(a)
       /\ a \notin neededJobs
       /\ b \in neededJobs

\* the text of the primary of job k differs from the text of its saved copy
TextsDiffer(k) ==
  LET f == files[jobs[k].primary]
  IN /\ f.some
     /\ f.value.compiledText.some
     /\ f.value.primaryText.some
     /\ f.value.compiledText.value # f.value.primaryText.value

\* the saved copy of the primary of job k is strictly newer than the primary
SavedCopyNewer(k) ==
  LET f == files[jobs[k].primary]
  IN /\ f.some
     /\ f.value.compiledModTime.some
     /\ f.value.primaryModTime.some
     /\ f.value.compiledModTime.value > f.value.primaryModTime.value

\* C5 as stated: over every outcome of the load phase, a compile job whose
\* primary's text differs from the text of its saved copy is in the must-run
\* set.
C5_ChangedTextMustRun ==
  Done => \A k \in CompileJobs : TextsDiffer(k) => k \in neededJobs

\* C5 amended: a compile job whose primary's text differs from the text of
\* its saved copy is in the must-run set unless the saved copy's
\* modification time is strictly greater than the primary's.
C5_ChangedTextMustRunUnlessSavedNewer ==
  Done => \A k \in CompileJobs :
            (TextsDiffer(k) /\ ~SavedCopyNewer(k)) => k \in neededJobs

\* a changed text found by the diff, and one behind a load that failed
C5_Witness ==
  /\ Done
  /\ \E k \in CompileJobs :
       TextsDiffer(k) /\ ~SavedCopyNewer(k) /\ HasInfo(k) /\ k \in neededJobs
  /\ \E k \in CompileJobs :
       TextsDiffer(k) /\ ~SavedCopyNewer(k) /\ ~HasInfo(k) /\ k \in neededJobs

\* job k has an unread entry for D that leaves a non-local change of D
\* uncovered
NotAllUnread(k, D) ==
  /\ Unchanged(k)
  /\ D \in ChangedOthers(k)
  /\ D \in DOMAIN UnreadOf(k)
  /\ Uncovered(k, D) # {}

\* C6 as stated: if A is unchanged and its unread entry for some other unit
\* D of the map leaves a non-local change of D uncovered, A is in the
\* must-run set and the reason noted for A names D and such a range of D.
C6_OutlierMustRunNamingIt ==
  Done => \A k \in CompileJobs : \A D \in Primaries :
            NotAllUnread(k, D)
              => /\ k \in neededJobs
                 /\ \E r \in Uncovered(k, D) :
                      Changed(filename(D), r) \in ReasonsFor(k)

\* the reason names the unit D: either A has no unparsed ranges for D, or
\* the reason gives a non-local change of D that A's entry leaves uncovered
ReasonNames(k, reason, D) ==
  /\ D \in ChangedOthers(k)
  /\ reason.file = filename(D)
  /\ \/ D \notin DOMAIN UnreadOf(k) /\ reason = NoUnparsedRanges(filename(D))
     \/ /\ D \in DOMAIN UnreadOf(k)
        /\ \E r \in Uncovered(k, D) : reason = Changed(filename(D), r)

\* C6 amended: such an A is in the must-run set, and exactly one reason is
\* noted for A; it names one unit of the map that obliges A, which is D when
\* D is the only other unit with non-local changes, and which otherwise can
\* be another unit, among them one A has no unparsed ranges for.
C6_OutlierMustRunNamingOne ==
  Done => \A k \in CompileJobs : \A D \in Primaries :
            NotAllUnread(k, D)
              => /\ k \in neededJobs
                 /\ NumberOfNotesFor(k) = 1
                 /\ \A reason \in ReasonsFor(k) :
                      \E D2 \in ChangedOthers(k) : ReasonNames(k, reason, D2)

\* the reason names D itself, and (three units) the reason names another
\* unit than D
C6_Witness ==
  /\ Done
  /\ \E k \in CompileJobs : \E D \in Primaries :
       /\ NotAllUnread(k, D)
       /\ k \in neededJobs
       /\ \E r \in Uncovered(k, D) : ReasonsFor(k) = {Changed(filename(D), r)}
  /\ \E k \in CompileJobs : \E D \in Primaries :
       /\ NotAllUnread(k, D)
       /\ k \in neededJobs
       /\ NumberOfNotesFor(k) = 1
       /\ \A reason \in ReasonsFor(k) : reason.file # filename(D)

\* C7: if A is unchanged and some other unit D of the map has non-local
\* changes while A's record has no key for D, A is in the must-run set.
C7_NoKeyMustRun ==
  Done => \A k \in CompileJobs :
            (/\ Unchanged(k)
             /\ \E D \in ChangedOthers(k) : D \notin DOMAIN UnreadOf(k))
              => k \in neededJobs

\* the only unit with non-local changes is one A has no key for
C7_Witness ==
  /\ Done
  /\ \E k \in CompileJobs :
       /\ Unchanged(k)
       /\ ChangedOthers(k) # {}
       /\ \A D \in ChangedOthers(k) : D \notin DOMAIN UnreadOf(k)
       /\ k \in neededJobs
       /\ \E D \in ChangedOthers(k) :
            ReasonsFor(k) = {NoUnparsedRanges(filename(D))}

\* C8: A is not in the must-run set when its primary has an entry, its
\* changedRanges is empty, and for every other unit D of the map with
\* non-local changes A's record has an entry for D which covers every
\* non-local changed range of D.
C8_AllUnreadNotNeeded ==
  Done => \A k \in CompileJobs :
            (/\ Unchanged(k)
             /\ \A D \in ChangedOthers(k) :
                  D \in DOMAIN UnreadOf(k) /\ Uncovered(k, D) = {})
              => k \notin neededJobs

\* some other unit changed non-locally, within what A left unparsed
C8_Witness ==
  /\ Done
  /\ \E k \in CompileJobs :
       /\ Unchanged(k)
       /\ ChangedOthers(k) # {}
       /\ \A D \in ChangedOthers(k) :
            D \in DOMAIN UnreadOf(k) /\ Uncovered(k, D) = {}
       /\ k \notin neededJobs
       /\ NumberOfNotesFor(k) = 0

\* the primary c was looked at and does not exist
Removed(c) == files[c].some /\ ~files[c].value.exists

\* C9: a primary that does not exist at load time gets the whole-file info;
\* every other compile job with an info is then in the must-run set if its
\* record has no unread entry for that primary or one that does not contain
\* the whole file; no unread entry of ordinary ranges contains the whole
\* file.
C9_RemovedPrimaryForcesOthers ==
  /\ \A c \in Primaries :
       Removed(c)
         => /\ c \in DOMAIN allInfos
            /\ allInfos[c].changedRanges = RangesForWholeFile
            /\ allInfos[c].nonlocalChangedRanges = RangesForWholeFile
  /\ Done => \A c \in Primaries : \A d \in CompileJobs :
               (/\ Removed(c)
                /\ jobs[d].primary # c
                /\ HasInfo(d)
                /\ \/ c \notin DOMAIN UnreadOf(d)
                   \/ ~isImproperSubsetOfAny(wholeFile, UnreadOf(d)[c]))
                 => d \in neededJobs
  /\ \A c \in Primaries : \A d \in DOMAIN allInfos :
       LET unread == allInfos[d].swiftRangesFileContents
                       .unparsedRangesByNonPrimary
       IN c \in DOMAIN unread
            => findOutlierIfAny(RangesForWholeFile, unread[c])
                 = Some(wholeFile)

\* an unchanged job with unparsed ranges for the removed primary, and one
\* without, are needed because of it alone
C9_Witness ==
  /\ Done
  /\ \E c \in Primaries : \E d \in CompileJobs :
       /\ Removed(c)
       /\ Unchanged(d)
       /\ ChangedOthers(d) = {c}
       /\ c \in DOMAIN UnreadOf(d)
       /\ d \in neededJobs
  /\ \E c \in Primaries : \E d \in CompileJobs :
       /\ Removed(c)
       /\ Unchanged(d)
       /\ ChangedOthers(d) = {c}
       /\ c \notin DOMAIN UnreadOf(d)
       /\ d \in neededJobs

\* the files f of an existing primary load: the .swiftranges file decodes,
\* both modification times are there, and the texts are readable when they
\* are read
Loadable(f) ==
  /\ f.exists
  /\ f.swiftRanges.kind = "ok"
  /\ f.compiledModTime.some
  /\ f.primaryModTime.some
  /\ \/ f.compiledModTime.value > f.primaryModTime.value
     \/ f.compiledText.some /\ f.primaryText.some

\* the files of the primary of job k do not load
FailsToLoad(k) ==
  LET f == files[jobs[k].primary]
  IN f.some /\ f.value.exists /\ ~Loadable(f.value)

LoadsAlone(k) ==
  LET f == files[jobs[k].primary] IN f.some /\ Loadable(f.value)

\* C10: when loadAllInfo has returned, the files of every compile job were
\* looked at, and each primary whose own files load has its entry in the
\* map, made of its own files, wherever the primaries that fail to load sit
\* in the job list.
C10_LoadFailuresAreIsolated ==
  Loaded => \A k \in CompileJobs :
              LET p == jobs[k].primary
                  f == files[p].value
              IN /\ files[p].some
                 /\ Loadable(f)
                      => /\ p \in DOMAIN allInfos
                         /\ allInfos[p].swiftRangesFileContents
                              = f.swiftRanges.contents
                         /\ allInfos[p].changedRanges = <<>>
                              <=> \/ f.compiledModTime.value
                                       > f.primaryModTime.value
                                  \/ f.compiledText = f.primaryText

\* a primary that loads after one that fails, and one before one that fails
C10_Witness ==
  /\ Loaded
  /\ \E k1, k2, k3 \in CompileJobs :
       /\ k1 < k2 /\ k2 < k3
       /\ FailsToLoad(k1) /\ LoadsAlone(k2) /\ FailsToLoad(k3)
       /\ HasInfo(k2)
       /\ InfoOf(k2).changedRanges # <<>>
       /\ ~HasInfo(k1) /\ ~HasInfo(k3)

SupplementaryPaths(p) == {<<"TY_CompiledSource", p>>, <<"TY_SwiftRanges", p>>}

\* C12: a primary that does not exist when it is loaded has an entry in the
\* map, with no contents of a .swiftranges file and with the whole file both
\* as changedRanges and as nonlocalChangedRanges, whatever its .swiftranges
\* file and its saved copy hold; the removal of both files was requested.
C12_MissingSourceIsWholeFile ==
  \A c \in Primaries :
    Removed(c)
      => /\ c \in DOMAIN allInfos
         /\ allInfos[c].swiftRangesFileContents = EmptyContents
         /\ allInfos[c].changedRanges = <<wholeFile>>
         /\ allInfos[c].nonlocalChangedRanges = <<wholeFile>>
         /\ SupplementaryPaths(c) \subseteq removed

\* a removed primary whose .swiftranges file would have loaded, and one
\* whose .swiftranges file is unreadable
C12_Witness ==
  /\ Loaded
  /\ \E c \in Primaries :
       /\ Removed(c)
       /\ files[c].value.swiftRanges.kind = "ok"
       /\ files[c].value.swiftRanges.contents # EmptyContents
       /\ c \in DOMAIN allInfos
       /\ SupplementaryPaths(c) \subseteq removed
  /\ \E c \in Primaries :
       /\ Removed(c)
       /\ files[c].value.swiftRanges.kind = "unreadable"
       /\ c \in DOMAIN allInfos

\* the primary p was looked at, exists, and its files do not load
Fails(p) == files[p].some /\ files[p].value.exists /\ ~Loadable(files[p].value)

\* C13: a primary that exists and whose .swiftranges file does not load,
\* or one of whose modification times cannot be had, or one of whose texts
\* cannot be read for the diff, has no entry in the map, and the removal of
\* both its supplementary files was requested.
C13_FailureOmitsAndRemoves ==
  \A p \in Primaries :
    Fails(p) => (p \notin DOMAIN allInfos /\ SupplementaryPaths(p) \subseteq removed)

\* one primary with a .swiftranges file that does not load and one that
\* fails on a modification time or on a text, next to one that loads
C13_Witness ==
  /\ Loaded
  /\ \E p, q, r \in Primaries :
       /\ Fails(p) /\ files[p].value.swiftRanges.kind # "ok"
       /\ Fails(q) /\ files[q].value.swiftRanges.kind = "ok"
       /\ p \notin DOMAIN allInfos /\ q \notin DOMAIN allInfos
       /\ SupplementaryPaths(p) \cup SupplementaryPaths(q) \subseteq removed
       /\ r \in DOMAIN allInfos
       /\ SupplementaryPaths(r) \cap removed = {}

\* the primary p was looked at, exists, its .swiftranges file loads and
\* both modification times can be had
Timed(p) ==
  /\ files[p].some
  /\ files[p].value.exists
  /\ files[p].value.swiftRanges.kind = "ok"
  /\ files[p].value.compiledModTime.some
  /\ files[p].value.primaryModTime.some

\* C14: with both modification times at hand, a saved copy strictly newer
\* than the primary gives empty changedRanges whether or not the two texts
\* can be read and whatever they are; otherwise both texts are read, and
\* changedRanges is what the comparison of the saved copy with the primary
\* reports.
C14_FreshnessShortcut ==
  \A p \in Primaries :
    Timed(p) =>
      LET f == files[p].value
      IN IF f.compiledModTime.value > f.primaryModTime.value
         THEN p \in DOMAIN allInfos /\ allInfos[p].changedRanges = <<>>
         ELSE IF f.compiledText.some /\ f.primaryText.some
         THEN /\ p \in DOMAIN allInfos
              /\ allInfos[p].changedRanges
                   = compare(f.compiledText.value, f.primaryText.value)
         ELSE p \notin DOMAIN allInfos

\* the shortcut taken over a saved copy that cannot be read; and, with the
\* two files equally old, a diff that reports a change
C14_Witness ==
  /\ Loaded
  /\ \E p \in Primaries :
       /\ Timed(p)
       /\ files[p].value.compiledModTime.value
            > files[p].value.primaryModTime.value
       /\ ~files[p].value.compiledText.some
       /\ allInfos[p].changedRanges = <<>>
  /\ \E p \in Primaries :
       /\ Timed(p)
       /\ files[p].value.compiledModTime.value
            = files[p].value.primaryModTime.value
       /\ p \in DOMAIN allInfos
       /\ allInfos[p].changedRanges # <<>>

\* C15: whatever the order in which the loop over the map meets the keys,
\* the decision returns the same must-run set and the same
\* lacking-information list, and hands out as many notes for the same jobs;
\* only the reason of a note depends on the order.
\* The decision of the state was made under any order of the keys (Decide);
\* it is compared with the decision under one fixed order, so that any two
\* orders are compared through it.
C15_OrderDoesNotMatter ==
  Done => LET o == CHOOSE x \in Orders(DOMAIN allInfos) : TRUE
              r == neededCompileJobsForRangeBasedIncrementalCompilation(
                     allInfos, jobs, o)
          IN /\ r.neededJobs = neededJobs
             /\ r.jobsLackingSupplementaryOutputs
                  = jobsLackingSupplementaryOutputs
             /\ Len(r.notes) = Len(notes)
             /\ \A n \in 1..Len(notes) : r.notes[n][1] = notes[n][1]

\* a job needed under every order, for a reason that depends on the order
C15_Witness ==
  /\ Done
  /\ \E k \in CompileJobs : \E o \in Orders(DOMAIN allInfos) :
       LET r == neededCompileJobsForRangeBasedIncrementalCompilation(
                  allInfos, jobs, o)
       IN /\ Unchanged(k)
          /\ k \in neededJobs
          /\ k \in r.neededJobs
          /\ r.notes # notes

\* C16: in every info of the map, each range of nonlocalChangedRanges is a
\* range of changedRanges, and nonlocalChangedRanges is empty when
\* changedRanges is.
C16_NonlocalWithinChanged ==
  \A p \in DOMAIN allInfos :
    /\ Elems(allInfos[p].nonlocalChangedRanges)
         \subseteq Elems(allInfos[p].changedRanges)
    /\ allInfos[p].changedRanges = <<>>
         => allInfos[p].nonlocalChangedRanges = <<>>

\* the map holds an info of each kind: of a removed primary, of a primary
\* whose saved copy is newer and whose record has no function bodies, and
\* of a primary that was compared and changed inside a function body
C16_Witness ==
  /\ Loaded
  /\ \E a, b, c \in DOMAIN allInfos :
       /\ Removed(a)
       /\ Timed(b)
       /\ files[b].value.compiledModTime.value
            > files[b].value.primaryModTime.value
       /\ allInfos[b].changedRanges = <<>>
       /\ Timed(c)
       /\ allInfos[c].swiftRangesFileContents.noninlinableFunctionBodies
            # <<>>
       /\ allInfos[c].changedRanges # <<>>
       /\ allInfos[c].nonlocalChangedRanges = <<>>

\* the primary p exists and its files loaded: its info was made from its
\* .swiftranges file and its changed ranges
NormallyLoaded(p) == files[p].some /\ Loadable(files[p].value)

\* C17: in the info of a primary that loaded, a range is in
\* nonlocalChangedRanges if and only if it is in changedRanges and no body
\* of a non-inlinable function of its record contains it; a range that a
\* body only overlaps is reported.
C17_NonlocalIffOutsideBodies ==
  \A p \in Primaries :
    NormallyLoaded(p) =>
      /\ p \in DOMAIN allInfos
      /\ LET info == allInfos[p]
             bodies ==
               info.swiftRangesFileContents.noninlinableFunctionBodies
         IN \A r \in Elems(info.changedRanges)
                       \cup Elems(info.nonlocalChangedRanges) :
              r \in Elems(info.nonlocalChangedRanges)
                <=> /\ r \in Elems(info.changedRanges)
                    /\ \A n \in 1..Len(bodies) :
                         ~(/\ LocLE(bodies[n].start, r.start)
                           /\ LocLE(r.end, bodies[n].end))

\* a changed range that starts where a body starts and ends after it is
\* reported as non-local
C17_Witness ==
  /\ Loaded
  /\ \E p \in Primaries :
       /\ NormallyLoaded(p)
       /\ \E r \in Elems(allInfos[p].nonlocalChangedRanges) :
            \E b \in Elems(allInfos[p].swiftRangesFileContents
                             .noninlinableFunctionBodies) :
              /\ b.start = r.start
              /\ LocLE(b.end, r.end)
              /\ b.end # r.end

\* b starts at or after the start of a and ends at or before the end of a,
\* by line first and by column within a line
ContainsRange(a, b) ==
  /\ \/ a.start[1] < b.start[1]
     \/ a.start[1] = b.start[1] /\ a.start[2] <= b.start[2]
  /\ \/ b.end[1] < a.end[1]
     \/ b.end[1] = a.end[1] /\ b.end[2] <= a.end[2]

\* candidates[n] is an outlier: no range of references contains it
IsOutlier(n) ==
  \A m \in 1..Len(references) : ~ContainsRange(references[m], candidates[n])

\* the positions of the outliers among the candidates
OutlierPositions == {n \in 1..Len(candidates) : IsOutlier(n)}

\* C18: findAllOutliers returns the candidates that no reference contains,
\* each once and in the order of the candidates: nothing for no candidates,
\* all candidates for no references; findOutlierIfAny returns the first of
\* them, or nothing when there is none.
C18_OutliersAreTheUncontained ==
  /\ outliers.some
       => /\ Len(outliers.value) = Cardinality(OutlierPositions)
          /\ \A k \in 1..Len(outliers.value) :
               \E n \in OutlierPositions :
                 /\ outliers.value[k] = candidates[n]
                 /\ Cardinality({m \in OutlierPositions : m < n}) = k - 1
          /\ candidates = <<>> => outliers.value = <<>>
          /\ references = <<>> => outliers.value = candidates
  /\ firstOutlier.some
       => IF OutlierPositions = {}
          THEN firstOutlier.value = None
          ELSE \E n \in OutlierPositions :
                 /\ \A m \in OutlierPositions : n <= m
                 /\ firstOutlier.value = Some(candidates[n])

\* of two candidates the second is contained in a reference that ends on a
\* later line at a smaller column, and the first is the only outlier
C18_Witness ==
  /\ outliers.some
  /\ firstOutlier.some
  /\ Len(candidates) = 2
  /\ \E m \in 1..Len(references) :
       /\ ContainsRange(references[m], candidates[2])
       /\ references[m].end[2] < candidates[2].end[2]
  /\ outliers.value = <<candidates[1]>>
  /\ firstOutlier.value = Some(candidates[1])

\* the primaries whose files loadInfoForOnePrimary has looked at
Looked == {p \in Primaries : files[p].some}

Unremovable(p) == files[p].some /\ files[p].value.unremovable # {}

\* C21: a remove that fails during the cleanup is only logged: the unit has
\* the entry (or no entry) it has when both removals succeed, the whole
\* file for a missing primary and none for a load failure; both files were
\* handed to remove, also when the first removal failed; the warnings are
\* those of the removals that failed; and the units after it are looked at
\* and have the entries their own files give.
C21_RemovalFailureOnlyLogged ==
  /\ \A p \in Primaries :
       Unremovable(p) =>
         LET f == files[p].value
             whenRemoved ==
               loadInfoForOnePrimary(p, [f EXCEPT !.unremovable = {}]).info
         IN /\ IF p \in DOMAIN allInfos
               THEN whenRemoved = Some(allInfos[p])
               ELSE whenRemoved = None
            /\ ~f.exists
                 => /\ p \in DOMAIN allInfos
                    /\ allInfos[p].changedRanges = <<wholeFile>>
                    /\ allInfos[p].nonlocalChangedRanges = <<wholeFile>>
            /\ (f.exists /\ ~Loadable(f)) => p \notin DOMAIN allInfos
            /\ SupplementaryPaths(p) \subseteq removed
            /\ warnings \cap SupplementaryPaths(p)
                 = {<<type, p>> : type \in f.unremovable}
  /\ \A q \in Looked :
       q \in DOMAIN allInfos
         <=> (~files[q].value.exists \/ Loadable(files[q].value))
  /\ Loaded => Looked = {jobs[k].primary : k \in CompileJobs}

\* the saved copy of a removed primary could not be removed and its
\* .swiftranges file was; neither file of the next primary, which does not
\* load, could be removed; the primary after them has its entry
C21_Witness ==
  /\ Loaded
  /\ \E k1, k2, k3 \in CompileJobs :
       /\ k1 < k2 /\ k2 < k3
       /\ Removed(jobs[k1].primary)
       /\ files[jobs[k1].primary].value.unremovable = {"TY_CompiledSource"}
       /\ <<"TY_SwiftRanges", jobs[k1].primary>> \in removed \ warnings
       /\ <<"TY_CompiledSource", jobs[k1].primary>> \in warnings
       /\ HasInfo(k1)
       /\ Fails(jobs[k2].primary)
       /\ files[jobs[k2].primary].value.unremovable = SupplementaryTypes
       /\ SupplementaryPaths(jobs[k2].primary) \subseteq warnings
       /\ ~HasInfo(k2)
       /\ LoadsAlone(k3) /\ HasInfo(k3)
       /\ InfoOf(k3).changedRanges # <<>>

\* job k is obliged by the unit D of the map: D has non-local changes and
\* job k has no unparsed ranges for D, or some that leave one uncovered
Obliges(D, k) ==
  /\ D \in ChangedOthers(k)
  /\ D \notin DOMAIN UnreadOf(k) \/ Uncovered(k, D) # {}

\* C22: the own entry of a unit is never one of its dependencies, also when
\* the key of the entry is a path with a directory, which line 283 compares
\* with the bare file name: a compile job with empty changedRanges is in the
\* must-run set only if another unit of the map obliges it, and no reason
\* noted for it names its own file.
C22_OwnEntryIsNoDependency ==
  Done => \A k \in CompileJobs :
            Unchanged(k)
              => /\ k \in neededJobs
                      => \E D \in DOMAIN allInfos \ {jobs[k].primary} :
                           Obliges(D, k)
                 /\ \A reason \in ReasonsFor(k) :
                      reason.file # filename(jobs[k].primary)

\* An unchanged unit whose key is a path with a directory, so that the loop
\* does not recognise its entry by the name: it is not needed, next to a
\* unit that changed within what it left unparsed; and one such unit is
\* needed, for a reason that names another unit.
C22_Witness ==
  /\ Done
  /\ \E k \in CompileJobs :
       /\ Unchanged(k)
       /\ filename(jobs[k].primary) # jobs[k].primary
       /\ ChangedOthers(k) # {}
       /\ k \notin neededJobs
       /\ NumberOfNotesFor(k) = 0
  /\ \E k \in CompileJobs :
       /\ Unchanged(k)
       /\ filename(jobs[k].primary) # jobs[k].primary
       /\ k \in neededJobs
       /\ \E D \in ChangedOthers(k) :
            ReasonsFor(k) = {NoUnparsedRanges(filename(D))}

\* C23: in one run of the decision, noteBuilding is called for a compile
\* job at least once if and only if the job is in the must-run set; a
\* compile job that is up to date gets no note.  The calls are recorded in
\* notes; the callbacks return nothing to the decision.
C23_NotedIffNeeded ==
  Done => \A k \in CompileJobs :
            /\ NumberOfNotesFor(k) >= 1 <=> k \in neededJobs
            /\ k \notin neededJobs => ReasonsFor(k) = {}

\* a changed job with one note, a job without an entry with two, and an
\* up-to-date job without a note next to a unit that changed non-locally
C23_Witness ==
  /\ Done
  /\ \E k \in CompileJobs :
       /\ HasInfo(k) /\ InfoOf(k).changedRanges # <<>>
       /\ k \in neededJobs
       /\ ReasonsFor(k) = {ThisFileChanged}
  /\ \E k \in CompileJobs :
       /\ ~HasInfo(k)
       /\ k \in neededJobs
       /\ NumberOfNotesFor(k) = 2
  /\ \E k \in CompileJobs :
       /\ Unchanged(k)
       /\ ChangedOthers(k) # {}
       /\ k \notin neededJobs
       /\ NumberOfNotesFor(k) = 0

\* C24: a compile job whose primary does not exist any more is in the
\* must-run set and not in the lacking-information list, although both its
\* supplementary files were handed to remove during the load; the list
\* holds the compile jobs whose primary has no entry in the map, each once,
\* and no other job.
C24_RemovedPrimaryIsNotLacking ==
  Done => /\ \A k \in CompileJobs :
               Removed(jobs[k].primary)
                 => /\ k \in neededJobs
                    /\ k \notin Lacking
                    /\ SupplementaryPaths(jobs[k].primary) \subseteq removed
          /\ Lacking = {k \in CompileJobs : ~HasInfo(k)}
          /\ Len(jobsLackingSupplementaryOutputs) = Cardinality(Lacking)

\* a job whose primary was removed, a job whose files did not load, and a
\* job without a primary
C24_Witness ==
  /\ Done
  /\ \E k \in CompileJobs :
       /\ Removed(jobs[k].primary)
       /\ SupplementaryPaths(jobs[k].primary) \subseteq removed
       /\ k \in neededJobs \ Lacking
  /\ \E k \in CompileJobs :
       /\ Fails(jobs[k].primary)
       /\ SupplementaryPaths(jobs[k].primary) \subseteq removed
       /\ k \in neededJobs \cap Lacking
  /\ NonCompileJobs # {}

\* the ranges that are added to the non-local changes of a unit, in front
\* of those it has or behind them
AddedRanges == {PartOfLine1, Line1, wholeFile}
Additions ==
  {<<<<>>, <<>>>>} \cup {<<<<r>>, <<>>>> : r \in AddedRanges}
    \cup {<<<<>>, <<r>>>> : r \in AddedRanges}

\* the ranges that are taken out of an unread set
RemovableRanges == UNION {Elems(u) : u \in UnparsedChoices}

Without(ranges, dropped) ==
  SelectSeq(ranges, LAMBDA r : r \notin dropped)

\* The maps obtained from the map infos by adding ranges to the non-local
\* changes of units other than own, and by removing ranges from the unread
\* sets of own.
GrownMaps(infos, own) ==
  LET others == DOMAIN infos \ {own}
      unread ==
        IF own \in DOMAIN infos
        THEN infos[own].swiftRangesFileContents.unparsedRangesByNonPrimary
        ELSE <<>>
  IN {[D \in DOMAIN infos |->
         IF D = own
         THEN [infos[D] EXCEPT
                 !.swiftRangesFileContents.unparsedRangesByNonPrimary =
                    [E \in DOMAIN unread |-> Without(unread[E], dropped[E])]]
         ELSE [infos[D] EXCEPT
                 !.nonlocalChangedRanges = added[D][1] \o @ \o added[D][2]]] :
        added \in [others -> Additions],
        dropped \in [DOMAIN unread -> SUBSET RemovableRanges]}

\* C25: a compile job that is in the must-run set for the map is in the
\* must-run set for every map obtained from it by adding ranges to the
\* non-local changes of other units and by removing ranges from the job's
\* own unread sets, under every order of the keys.
C25_DecisionIsMonotone ==
  Done => \A k \in CompileJobs \cap neededJobs :
            \A grown \in GrownMaps(allInfos, jobs[k].primary) :
              \A o \in Orders(DOMAIN grown) :
                k \in neededCompileJobsForRangeBasedIncrementalCompilation(
                        grown, jobs, o).neededJobs

\* an unchanged job is needed for a change of D that its unread set for D
\* leaves uncovered; among the maps compared are one where D has a further
\* change and the job's unread set for D is empty, and one where a unit
\* that had no non-local change has one
C25_Witness ==
  /\ Done
  /\ \E k \in CompileJobs \cap neededJobs : \E D \in ChangedOthers(k) :
       /\ Unchanged(k)
       /\ D \in DOMAIN UnreadOf(k)
       /\ Uncovered(k, D) # {}
       /\ \E grown \in GrownMaps(allInfos, jobs[k].primary) :
            /\ Len(grown[D].nonlocalChangedRanges)
                 > Len(allInfos[D].nonlocalChangedRanges)
            /\ grown[jobs[k].primary].swiftRangesFileContents
                  .unparsedRangesByNonPrimary[D] = <<>>
       /\ \E grown \in GrownMaps(allInfos, jobs[k].primary) :
            \E E \in DOMAIN allInfos \ {jobs[k].primary, D} :
              /\ allInfos[E].nonlocalChangedRanges = <<>>
              /\ grown[E].nonlocalChangedRanges # <<>>

\* one turn of the loop of loadAllInfo, as a step from idx to the next job
TurnOfLoadAllInfo ==
  LET p == jobs[idx].primary
  IN IF p = <<>>
     THEN allInfos' = allInfos
     ELSE LET f == files'[p].value
              turn == loadAllInfoTurn(allInfos, p,
                                      loadInfoForOnePrimary(p, f).info)
          IN /\ turn.inserted
             /\ IF ~f.exists \/ Loadable(f)
                THEN /\ p \notin DOMAIN allInfos
                     /\ DOMAIN allInfos' = DOMAIN allInfos \cup {p}
                ELSE allInfos' = allInfos

\* C26: over a job list whose compile jobs name distinct primaries, the
\* keys of the map loadAllInfo returns are the primaries that are missing
\* or whose .swiftranges file and changed ranges both loaded; a turn for a
\* job without a primary leaves the map as it is; a turn that inserts a key
\* inserts the primary of its job, which is not in the map yet, so that the
\* assertion of line 90 holds.
C26_KeysOfTheMap ==
  /\ [](Loaded => DOMAIN allInfos
                     = {jobs[k].primary :
                          k \in {j \in CompileJobs :
                                   LET f == files[jobs[j].primary].value
                                   IN ~f.exists \/ Loadable(f)}})
  /\ [][(pc = "load" /\ idx <= Len(jobs)) => TurnOfLoadAllInfo]_vars

\* a list of a job without a primary between a primary that was removed and
\* one that loads: two keys
C26_Witness ==
  /\ Loaded
  /\ Len(jobs) = 3
  /\ CompileJobs = {1, 3}
  /\ Removed(jobs[1].primary)
  /\ LoadsAlone(3)
  /\ DOMAIN allInfos = {jobs[1].primary, jobs[3].primary}

====
